---- MODULE Spec2Model ----
(***************************************************************************)
(* Model of connector.py: the US Census population-projection connector.   *)
(*                                                                         *)
(* update(configuration, state) is a Python generator.  A frame record     *)
(* holds its locals and its position; each action runs the generator from  *)
(* one suspension or call point to the next.  The Census API and the wall  *)
(* clock are the environment.                                              *)
(***************************************************************************)
EXTENDS Integers, Sequences, FiniteSets, TLC

VARIABLES
    run,      \* the frame of the update() call under study
    twin,     \* a second update() call fed the same responses and clock
    api,      \* the JSON body the Census API serves during this sync
    now,      \* the wall clock (a UTC datetime)
    served    \* the responses handed to rq.get so far, in request order

vars == <<run, twin, api, now, served>>

\* Longest list of data rows a served body carries.
MaxRows == 2

-----------------------------------------------------------------------------
(* Python built-ins used by update()                                       *)

Min(a, b) == IF a <= b THEN a ELSE b

\* A str is the sequence of its Unicode code points.  AsciiLow lists the
\* characters of codes 32 (the space) to 95, AsciiHigh those of codes 97 to 126.
AsciiLow ==
    " !\"#$%&'()*+,-./0123456789:;<=>?@ABCDEFGHIJKLMNOPQRSTUVWXYZ[\\]^_"

AsciiHigh == "abcdefghijklmnopqrstuvwxyz{|}~"

\* ord(c) of a printable ASCII character.
Ord(c) ==
    LET low == {i \in 1..Len(AsciiLow) : SubSeq(AsciiLow, i, i) = c}
        high == {i \in 1..Len(AsciiHigh) : SubSeq(AsciiHigh, i, i) = c}
    IN  IF low # {} THEN 31 + CHOOSE i \in low : TRUE
        ELSE 96 + CHOOSE i \in high : TRUE

\* The str whose characters are those of the literal lit.
Str(lit) == [i \in 1..Len(lit) |-> Ord(SubSeq(lit, i, i))]

\* The characters int() gives a meaning besides the digits.
Underscore == Ord("_")
PlusSign == Ord("+")
MinusSign == Ord("-")

\* The code points of the digit zero of every Unicode decimal-digit block
\* (category Nd, Unicode 14.0); the digits 1 to 9 of a block follow its zero.
DigitZeros ==
    { 48, 1632, 1776, 1984, 2406, 2534, 2662, 2790, 2918, 3046, 3174,
      3302, 3430, 3558, 3664, 3792, 3872, 4160, 4240, 6112, 6160, 6470,
      6608, 6784, 6800, 6992, 7088, 7232, 7248, 42528, 43216, 43264,
      43472, 43504, 43600, 44016, 65296, 66720, 68912, 69734, 69872,
      69942, 70096, 70384, 70736, 70864, 71248, 71360, 71472, 71904,
      72016, 72784, 73040, 73120, 92768, 92864, 93008, 120782, 120792,
      120802, 120812, 120822, 123200, 123632, 125264, 130032 }

\* The characters int() reads as decimal digits.
DigitChars == UNION { z..(z + 9) : z \in DigitZeros }

DigitVal ==
    [c \in DigitChars |-> c - CHOOSE z \in DigitZeros : z <= c /\ c <= z + 9]

\* The characters int() skips around a number: the ASCII whitespace
\* \t \n \v \f \r and the space, and the whitespace characters beyond ASCII.
SpaceChars ==
    (9..13) \cup {32, 133, 160, 5760} \cup (8192..8202)
        \cup {8232, 8233, 8239, 8287, 12288}

IsSpace(c) == c \in SpaceChars

\* s without its leading and trailing whitespace.
Strip(s) ==
    LET keep == {i \in 1..Len(s) : ~IsSpace(s[i])} IN
    IF keep = {} THEN <<>>
    ELSE SubSeq(s, CHOOSE i \in keep : \A j \in keep : i <= j,
                   CHOOSE i \in keep : \A j \in keep : j <= i)

\* The result of a conversion that raised ValueError.
ValueError == [ok |-> FALSE, val |-> 0]

\* A decimal literal: digits, with single underscores allowed between digits.
IsDecimal(s) ==
    /\ Len(s) > 0
    /\ \A i \in 1..Len(s) : s[i] \in DigitChars \/ s[i] = Underscore
    /\ s[1] # Underscore
    /\ s[Len(s)] # Underscore
    /\ \A i \in 1..(Len(s) - 1) : ~(s[i] = Underscore /\ s[i + 1] = Underscore)

\* The value of the first n characters of a decimal literal.
RECURSIVE DecimalValue(_, _)
DecimalValue(s, n) ==
    IF n = 0 THEN 0
    ELSE IF s[n] = Underscore THEN DecimalValue(s, n - 1)
    ELSE DecimalValue(s, n - 1) * 10 + DigitVal[s[n]]

\* sys.get_int_max_str_digits(): the most digits int() converts from a str.
int_max_str_digits == 4300

\* The digits of a decimal literal, its underscores not counted.
DigitCount(s) == Cardinality({i \in 1..Len(s) : s[i] # Underscore})

\* An unsigned decimal literal of at most int_max_str_digits digits converts;
\* a longer one raises ValueError as a malformed one does.
Digits(s) ==
    IF IsDecimal(s) /\ DigitCount(s) <= int_max_str_digits
    THEN [ok |-> TRUE, val |-> DecimalValue(s, Len(s))]
    ELSE ValueError

\* int(s) for a str s: surrounding whitespace, one optional sign, base 10.
int(s) ==
    LET t == Strip(s) IN
    IF Len(t) = 0 THEN ValueError
    ELSE IF t[1] = MinusSign
         THEN LET d == Digits(Tail(t)) IN
              IF d.ok THEN [ok |-> TRUE, val |-> 0 - d.val] ELSE ValueError
         ELSE IF t[1] = PlusSign
              THEN Digits(Tail(t))
              ELSE Digits(t)

\* dict(zip(headers, row)): pairs up to the shorter list, a later duplicate
\* header overwriting an earlier one.
ZipDict(headers, row) ==
    LET n == Min(Len(headers), Len(row))
        at(h) == {j \in 1..n : headers[j] = h}
        last(h) == CHOOSE j \in at(h) : \A m \in at(h) : m <= j
    IN  [h \in {headers[j] : j \in 1..n} |-> row[last(h)]]

\* int(row_dict.get(key, 0))
IntField(row_dict, key) ==
    IF key \in DOMAIN row_dict THEN int(row_dict[key]) ELSE [ok |-> TRUE, val |-> 0]

\* row_dict.get(key, "")
StrField(row_dict, key) ==
    IF key \in DOMAIN row_dict THEN row_dict[key] ELSE <<>>

DigitStr ==
    [d \in 0..9 |->
        CASE d = 0 -> "0" [] d = 1 -> "1" [] d = 2 -> "2" [] d = 3 -> "3"
          [] d = 4 -> "4" [] d = 5 -> "5" [] d = 6 -> "6" [] d = 7 -> "7"
          [] d = 8 -> "8" [] d = 9 -> "9"]

\* Zero-padded decimal of n in w digits (n < 10^w).
RECURSIVE Pad(_, _)
Pad(n, w) ==
    IF w = 0 THEN "" ELSE Pad(n \div 10, w - 1) \o DigitStr[n % 10]

\* datetime.strftime("%Y-%m-%dT%H:%M:%SZ")
Strftime(t) ==
    Pad(t.year, 4) \o "-" \o Pad(t.month, 2) \o "-" \o Pad(t.day, 2) \o "T"
        \o Pad(t.hour, 2) \o ":" \o Pad(t.minute, 2) \o ":" \o Pad(t.second, 2) \o "Z"

-----------------------------------------------------------------------------
(* The environment: wall clock and Census API                               *)

IsLeap(y) == (y % 4 = 0 /\ y % 100 # 0) \/ y % 400 = 0

DaysInMonth(y, m) ==
    IF m = 2 THEN (IF IsLeap(y) THEN 29 ELSE 28)
    ELSE IF m \in {4, 6, 9, 11} THEN 30 ELSE 31

\* The clock one second later.
Tick(t) ==
    IF t.second < 59 THEN [t EXCEPT !.second = @ + 1]
    ELSE IF t.minute < 59 THEN [t EXCEPT !.second = 0, !.minute = @ + 1]
    ELSE IF t.hour < 23 THEN [t EXCEPT !.second = 0, !.minute = 0, !.hour = @ + 1]
    ELSE IF t.day < DaysInMonth(t.year, t.month)
         THEN [t EXCEPT !.second = 0, !.minute = 0, !.hour = 0, !.day = @ + 1]
    ELSE IF t.month < 12
         THEN [t EXCEPT !.second = 0, !.minute = 0, !.hour = 0, !.day = 1,
                        !.month = @ + 1]
    ELSE [t EXCEPT !.second = 0, !.minute = 0, !.hour = 0, !.day = 1,
                   !.month = 1, !.year = @ + 1]

\* The clock when the sync begins: three seconds before the end of a leap day.
StartClock ==
    [year |-> 2024, month |-> 2, day |-> 29, hour |-> 23, minute |-> 59, second |-> 57]

\* The header row the API returns for get=POP,YEAR,RACE,SEX,AGE&for=us:*
ApiHeader ==
    <<Str("POP"), Str("YEAR"), Str("RACE"), Str("SEX"), Str("AGE"), Str("us")>>

\* Data rows the API may serve: three that convert, one whose POP does not.
\* The second has a POP of "\v 1_204" and an AGE of "+7" whose 7 is the
\* fullwidth digit U+FF17.
RowPool ==
    { <<Str("3955"), Str("2017"), Str("2"), Str("1"), Str("0"), Str("1")>>,
      <<<<11>> \o Str(" 1_204"), Str("2018"), Str("9"), Str("2"), <<43, 65303>>,
        Str("1")>>,
      <<Str("88"), Str("2019"), Str("0"), Str("0"), Str("12"), Str("1")>>,
      <<Str("N/A"), Str("2017"), Str("1"), Str("1"), Str("0"), Str("1")>> }

\* JSON bodies: the empty array, or the header row followed by data rows.
\* The projection table holds one row per (YEAR, RACE, SEX, AGE), so the data
\* rows of a body are pairwise distinct.
Datasets ==
    {<<>>} \cup
    UNION { { <<ApiHeader>> \o rows :
                rows \in {r \in [1..n -> RowPool] :
                             \A i, j \in 1..n : i # j => r[i] # r[j]} } :
            n \in 0..MaxRows }

HttpError == [kind |-> "http_error", body |-> <<>>]
Ok(body) == [kind |-> "ok", body |-> body]

\* The state argument of update(): no cursor yet, or the cursor an earlier
\* sync checkpointed.
EmptyState == [k \in {} |-> ""]
PriorStates == {EmptyState, [last_updated |-> "2023-06-01T12:00:00Z"]}

-----------------------------------------------------------------------------
(* update()                                                                 *)

api_key == "ac259f7342449a3fcc5b1cfbed52e87e6adfde60"

demo_params ==
    << [YEAR |-> "1", ORIGIN |-> "1", RACE |-> "1", SEX |-> "1", AGE |-> "1"],
       [YEAR |-> "1", ORIGIN |-> "1", RACE |-> "2", SEX |-> "1", AGE |-> "1"],
       [YEAR |-> "1", ORIGIN |-> "1", RACE |-> "3", SEX |-> "1", AGE |-> "1"],
       [YEAR |-> "1", ORIGIN |-> "1", RACE |-> "4", SEX |-> "1", AGE |-> "1"],
       [YEAR |-> "1", ORIGIN |-> "1", RACE |-> "5", SEX |-> "1", AGE |-> "1"],
       [YEAR |-> "1", ORIGIN |-> "1", RACE |-> "6", SEX |-> "1", AGE |-> "1"],
       [YEAR |-> "1", ORIGIN |-> "2", RACE |-> "1", SEX |-> "1", AGE |-> "1"],
       [YEAR |-> "1", ORIGIN |-> "2", RACE |-> "2", SEX |-> "1", AGE |-> "1"] >>

\* state.get('last_updated', '2000-01-01T00:00:00Z')
StateGet(state) ==
    IF "last_updated" \in DOMAIN state THEN state["last_updated"]
    ELSE "2000-01-01T00:00:00Z"

race_map ==
    [c \in {Str("1"), Str("2"), Str("3"), Str("4"), Str("5"), Str("6")} |->
        CASE c = Str("1") -> Str("White") [] c = Str("2") -> Str("Black")
          [] c = Str("3") -> Str("AIAN") [] c = Str("4") -> Str("Asian")
          [] c = Str("5") -> Str("NHPI") [] c = Str("6") -> Str("Two or More Races")]

sex_map ==
    [c \in {Str("1"), Str("2")} |-> IF c = Str("1") THEN Str("Male") ELSE Str("Female")]

\* Faulty variant of race_str: race_map.get(race, ""), the raw code dropped.
race_str_blank(race) == IF race \in DOMAIN race_map THEN race_map[race] ELSE <<>>

\* race_map.get(race, race)
race_str(race) == IF race \in DOMAIN race_map THEN race_map[race] ELSE race

\* sex_map.get(sex, sex)
sex_str(sex) == IF sex \in DOMAIN sex_map THEN sex_map[sex] ELSE sex

\* Faulty variant of full_url: the loop over params.items() restored, so the
\* URL varies with the parameter set.
full_url_filtered(params) ==
    "https://api.census.gov/data/2017/popproj/pop"
        \o "?get=POP,YEAR,RACE,SEX,AGE&for=us:*&key=" \o api_key
        \o "&YEAR=" \o params.YEAR \o "&ORIGIN=" \o params.ORIGIN
        \o "&RACE=" \o params.RACE \o "&SEX=" \o params.SEX
        \o "&AGE=" \o params.AGE

\* base_url + query_params; the loop over params.items() is commented out.
full_url(params) ==
    "https://api.census.gov/data/2017/popproj/pop"
        \o "?get=POP,YEAR,RACE,SEX,AGE&for=us:*&key=" \o api_key

\* Faulty variant of DataRows: rows = data, the header row not skipped.
DataRowsWithHeader(data) == data

\* rows = data[1:]
DataRows(data) == Tail(data)

\* The column names update() looks up in row_dict.
YEAR == Str("YEAR")
RACE == Str("RACE")
SEX == Str("SEX")
AGE == Str("AGE")
POP == Str("POP")

\* The conversions of one row, in evaluation order: YEAR, AGE, POP.
Convert(headers, row) ==
    LET row_dict == ZipDict(headers, row)
        year == IntField(row_dict, YEAR)
        age == IntField(row_dict, AGE)
        pop == IntField(row_dict, POP)
    IN  [ok |-> year.ok /\ age.ok /\ pop.ok,
         year |-> year.val, age |-> age.val, pop |-> pop.val,
         race |-> StrField(row_dict, RACE), sex |-> StrField(row_dict, SEX)]

\* op.upsert(table="population_projections", data={...})
Upsert(c, current_time) ==
    [op |-> "upsert", table |-> "population_projections",
     data |-> [year |-> c.year, race |-> race_str(c.race), sex |-> sex_str(c.sex),
               age |-> c.age, total_pop |-> c.pop, last_updated |-> current_time]]

\* op.checkpoint(state={"last_updated": current_time})
Checkpoint(current_time) ==
    [op |-> "checkpoint", state |-> [last_updated |-> current_time]]

\* The frame of update(configuration, state) before its first next().
Call(state) ==
    [pc |-> "start", state |-> state, last_updated_cursor |-> "", current_time |-> "",
     p |-> 0, headers |-> <<>>, rows |-> <<>>, k |-> 0, total_records |-> 0,
     emitted |-> <<>>, src |-> <<>>, requests |-> <<>>, log |-> <<>>]

\* No second call is running.
NoCall == [Call(EmptyState) EXCEPT !.pc = "absent"]

\* Lines 30-55: the cursor, the run's timestamp, the counter; then the
\* first iteration of the loop over demo_params.
Enter(f, clock) ==
    [f EXCEPT !.pc = "request",
              !.log = Append(@, [level |-> "info", msg |-> "Starting sync"]),
              !.last_updated_cursor = StateGet(f.state),
              !.current_time = Strftime(clock),
              !.total_records = 0,
              !.p = 1]

\* The next iteration of "for params in demo_params", or the code after it.
NextParams(f) ==
    IF f.p < Len(demo_params)
    THEN [f EXCEPT !.p = @ + 1, !.pc = "request"]
    ELSE [f EXCEPT !.pc = "summary"]

\* Faulty variant of Except: the try statement wraps the whole loop, so the
\* first exception ends it.
ExceptEndsLoop(f, exc) ==
    [f EXCEPT !.log = Append(@, [level |-> "warning",
                                 msg |-> "Error processing data",
                                 params |-> demo_params[f.p],
                                 exc |-> exc]),
              !.pc = "summary"]

\* Faulty variant of Except: the handler also resets the counter.
ExceptResetsCount(f, exc) ==
    NextParams([f EXCEPT !.log = Append(@, [level |-> "warning",
                                             msg |-> "Error processing data",
                                             params |-> demo_params[f.p],
                                             exc |-> exc]),
                         !.total_records = 0])

\* except Exception as e: log.warning(...); the loop goes on.
Except(f, exc) ==
    NextParams([f EXCEPT !.log = Append(@, [level |-> "warning",
                                             msg |-> "Error processing data",
                                             params |-> demo_params[f.p],
                                             exc |-> exc])])

\* The next iteration of "for row in rows", or the end of the try body.
NextRow(f) ==
    IF f.k < Len(f.rows)
    THEN [f EXCEPT !.k = @ + 1, !.pc = "row"]
    ELSE NextParams(f)

\* Faulty variant of Fetch: an incremental fetch, the cursor added to the URL.
FetchSince(f, resp) ==
    LET url == full_url(demo_params[f.p]) \o "&since=" \o f.last_updated_cursor
        g == [f EXCEPT !.log = Append(@, [level |-> "fine", msg |-> "Requesting URL",
                                          url |-> url]),
                       !.requests = Append(@, [url |-> url, p |-> f.p])]
    IN  IF resp.kind = "http_error" THEN Except(g, "HTTPError")
        ELSE IF Len(resp.body) = 0 THEN Except(g, "IndexError")
        ELSE LET rows == DataRows(resp.body) IN
             NextRow([g EXCEPT !.headers = resp.body[1],
                               !.rows = rows,
                               !.k = 0,
                               !.log = Append(@, [level |-> "info",
                                                  msg |-> "Received records",
                                                  n |-> Len(rows),
                                                  params |-> demo_params[f.p]])])

\* Lines 59-81: build the URL, GET it, raise for an HTTP error, decode the
\* body, split the header row from the data rows.
Fetch(f, resp) ==
    LET url == full_url(demo_params[f.p])
        g == [f EXCEPT !.log = Append(@, [level |-> "fine", msg |-> "Requesting URL",
                                          url |-> url]),
                       !.requests = Append(@, [url |-> url, p |-> f.p])]
    IN  IF resp.kind = "http_error" THEN Except(g, "HTTPError")
        ELSE IF Len(resp.body) = 0 THEN Except(g, "IndexError")
        ELSE LET rows == DataRows(resp.body) IN
             NextRow([g EXCEPT !.headers = resp.body[1],
                               !.rows = rows,
                               !.k = 0,
                               !.log = Append(@, [level |-> "info",
                                                  msg |-> "Received records",
                                                  n |-> Len(rows),
                                                  params |-> demo_params[f.p]])])

\* Faulty variant of Row: the upsert stamped with the cursor read from the
\* state instead of the run's timestamp.
RowStampsCursor(f) ==
    LET c == Convert(f.headers, f.rows[f.k]) IN
    IF c.ok
    THEN [f EXCEPT !.emitted = Append(@, Upsert(c, f.last_updated_cursor)),
                   !.src = Append(@, [p |-> f.p, k |-> f.k]),
                   !.pc = "yielded"]
    ELSE Except(f, "ValueError")

\* Faulty variant of Row: the try statement sits inside the row loop, so a
\* row that does not convert is logged and the rows after it still yield.
RowSkipsBad(f) ==
    LET c == Convert(f.headers, f.rows[f.k]) IN
    IF c.ok
    THEN [f EXCEPT !.emitted = Append(@, Upsert(c, f.current_time)),
                   !.src = Append(@, [p |-> f.p, k |-> f.k]),
                   !.pc = "yielded"]
    ELSE NextRow([f EXCEPT !.log = Append(@, [level |-> "warning",
                                               msg |-> "Error processing data",
                                               params |-> demo_params[f.p],
                                               exc |-> "ValueError"])])

\* Lines 86-113: convert the row and yield its upsert, or raise.
Row(f) ==
    LET c == Convert(f.headers, f.rows[f.k]) IN
    IF c.ok
    THEN [f EXCEPT !.emitted = Append(@, Upsert(c, f.current_time)),
                   !.src = Append(@, [p |-> f.p, k |-> f.k]),
                   !.pc = "yielded"]
    ELSE Except(f, "ValueError")

\* Line 115, after the consumer resumes the generator.
Resume(f) == NextRow([f EXCEPT !.total_records = @ + 1])

\* Faulty variant of Summary: the checkpoint skipped when nothing was synced.
SummaryIfRecords(f) ==
    IF f.total_records > 0
    THEN [f EXCEPT !.log = Append(@, [level |-> "info",
                                      msg |-> "Total records processed",
                                      total |-> f.total_records]),
                   !.emitted = Append(@, Checkpoint(f.current_time)),
                   !.src = Append(@, [p |-> 0, k |-> 0]),
                   !.pc = "checkpointed"]
    ELSE [f EXCEPT !.log = Append(@, [level |-> "info",
                                      msg |-> "Total records processed",
                                      total |-> f.total_records]),
                   !.pc = "checkpointed"]

\* Lines 120-125: the summary line and the checkpoint.
Summary(f) ==
    [f EXCEPT !.log = Append(@, [level |-> "info", msg |-> "Total records processed",
                                 total |-> f.total_records]),
              !.emitted = Append(@, Checkpoint(f.current_time)),
              !.src = Append(@, [p |-> 0, k |-> 0]),
              !.pc = "checkpointed"]

\* The generator returns after its last yield.
Return(f) == [f EXCEPT !.pc = "done"]

-----------------------------------------------------------------------------
(* Actions                                                                  *)

\* The second call, when there is one, takes the same step on the same input.
Along(next) == twin' = IF twin.pc = run.pc THEN next ELSE twin

Start ==
    /\ run.pc = "start"
    /\ run' = Enter(run, now)
    /\ Along(Enter(twin, now))
    /\ UNCHANGED <<api, now, served>>

Request(resp) ==
    /\ run.pc = "request"
    /\ run' = Fetch(run, resp)
    /\ Along(Fetch(twin, resp))
    /\ served' = Append(served, resp)
    /\ now' = Tick(now)
    /\ UNCHANGED api

RequestFails == Request(HttpError)

RequestSucceeds == Request(Ok(api))

RowYields ==
    /\ run.pc = "row"
    /\ Convert(run.headers, run.rows[run.k]).ok
    /\ run' = Row(run)
    /\ Along(Row(twin))
    /\ UNCHANGED <<api, now, served>>

RowRaises ==
    /\ run.pc = "row"
    /\ ~Convert(run.headers, run.rows[run.k]).ok
    /\ run' = Row(run)
    /\ Along(Row(twin))
    /\ UNCHANGED <<api, now, served>>

Resumed ==
    /\ run.pc = "yielded"
    /\ run' = Resume(run)
    /\ Along(Resume(twin))
    /\ UNCHANGED <<api, now, served>>

Summarise ==
    /\ run.pc = "summary"
    /\ run' = Summary(run)
    /\ Along(Summary(twin))
    /\ UNCHANGED <<api, now, served>>

Returns ==
    /\ run.pc = "checkpointed"
    /\ run' = Return(run)
    /\ Along(Return(twin))
    /\ UNCHANGED <<api, now, served>>

Init ==
    /\ \E s \in PriorStates : run = Call(s)
    /\ twin = NoCall
    /\ api \in Datasets
    /\ now = StartClock
    /\ served = <<>>

\* Two calls that differ in the state argument only.
InitPair ==
    /\ \E s \in PriorStates : run = Call(s)
    /\ twin = Call(EmptyState)
    /\ api \in Datasets
    /\ now = StartClock
    /\ served = <<>>

Next ==
    \/ Start
    \/ RequestFails
    \/ RequestSucceeds
    \/ RowYields
    \/ RowRaises
    \/ Resumed
    \/ Summarise
    \/ Returns

Spec == Init /\ [][Next]_vars

SpecPair == InitPair /\ [][Next]_vars

-----------------------------------------------------------------------------
(* Vocabulary of the properties                                             *)

IsUpsert(e) == e.op = "upsert"

UpsertIdx(f) == {i \in 1..Len(f.emitted) : f.emitted[i].op = "upsert"}

CheckpointIdx(f) == {i \in 1..Len(f.emitted) : f.emitted[i].op = "checkpoint"}

\* The loop over demo_params is over.
PostLoop(f) == f.pc \in {"summary", "checkpointed", "done"}

\* The parameter sets whose iteration is over.
Completed(f) == {j \in 1..Len(demo_params) : j < f.p \/ PostLoop(f)}

\* The positions in emitted of the upserts yielded during parameter set j.
FromSet(f, j) == {i \in UpsertIdx(f) : f.src[i].p = j}

IsPrefix(s, t) == Len(s) <= Len(t) /\ \A i \in 1..Len(s) : s[i] = t[i]

\* The first data row of a body that does not convert, or one past the last.
FirstBad(body) ==
    LET n == Len(body) - 1
        bad == {k \in 1..n : ~Convert(body[1], body[k + 1]).ok}
    IN  IF bad = {} THEN n + 1 ELSE CHOOSE k \in bad : \A m \in bad : k <= m

\* The upserts of one response taken alone.
ExpectedOf(resp, ts) ==
    IF resp.kind # "ok" \/ Len(resp.body) = 0 THEN <<>>
    ELSE [k \in 1..(FirstBad(resp.body) - 1) |->
             Upsert(Convert(resp.body[1], resp.body[k + 1]), ts)]

RECURSIVE ExpectedUpTo(_, _)
ExpectedUpTo(n, ts) ==
    IF n = 0 THEN <<>> ELSE ExpectedUpTo(n - 1, ts) \o ExpectedOf(served[n], ts)

-----------------------------------------------------------------------------
(* Properties                                                               *)

\* C1: a parameter set whose request raises an HTTP error costs only its own
\* records: a finished run has requested all 8 sets, its upserts are those of
\* the successful responses, each taken alone and in request order, and its
\* last operation is the checkpoint.
C1_OtherSetsStillEmitted ==
    run.pc = "done" =>
        /\ Len(served) = Len(demo_params)
        /\ SelectSeq(run.emitted, IsUpsert)
               = ExpectedUpTo(Len(served), run.current_time)
        /\ run.emitted[Len(run.emitted)].op = "checkpoint"

\* A finished run in which a request failed, a later one succeeded, and the
\* later one's records were emitted before the checkpoint.
C1_Witness ==
    /\ run.pc = "done"
    /\ \E i, j \in 1..Len(served) :
          /\ i < j
          /\ served[i].kind = "http_error"
          /\ served[j].kind = "ok"
          /\ FromSet(run, j) # {}
    /\ run.emitted[Len(run.emitted)].op = "checkpoint"

\* The work done so far: log lines, operations, counted records, the return.
Rank(f) ==
    Len(f.log) + Len(f.emitted) + f.total_records + (IF f.pc = "done" THEN 1 ELSE 0)

\* A run that has not returned has a next step: at a data row it either
\* yields or raises, elsewhere the step of its position is enabled.
C2_NotStuck ==
    \/ run.pc = "done"
    \/ run.pc = "row" /\ run.k \in 1..Len(run.rows)
    \/ ENABLED (Start \/ RequestFails \/ RequestSucceeds \/ Resumed
                  \/ Summarise \/ Returns)

C2_Safety ==
    /\ Cardinality(CheckpointIdx(run)) <= 1
    /\ \A i \in CheckpointIdx(run) :
          /\ i = Len(run.emitted)
          /\ run.emitted[i].state = [last_updated |-> "2024-02-29T23:59:57Z"]
          /\ run.pc \in {"checkpointed", "done"}
    /\ run.pc \in {"checkpointed", "done"} => Cardinality(CheckpointIdx(run)) = 1
    /\ run.pc # "start" =>
          run.last_updated_cursor =
              (IF DOMAIN run.state = {} THEN "2000-01-01T00:00:00Z"
               ELSE run.state["last_updated"])
    /\ Rank(run) <= 4 + Len(demo_params) * (2 + 2 * Len(api))
    /\ C2_NotStuck

\* C2: every run completes, having emitted exactly one checkpoint, as its
\* last operation, whose state maps last_updated to the time the clock showed
\* when the run began; an absent cursor is read as 2000-01-01T00:00:00Z.
\* Completion: a run that has not returned always has a next step, and
\* every step adds to a measure of work that the size of the response bounds.
C2_AlwaysCheckpoints ==
    /\ []C2_Safety
    /\ [][Rank(run') > Rank(run)]_vars

\* A finished run, begun without a cursor, in which all 8 requests failed:
\* the checkpoint is the only operation.
C2_Witness ==
    /\ run.pc = "done"
    /\ DOMAIN run.state = {}
    /\ Len(served) = Len(demo_params)
    /\ \A j \in 1..Len(served) : served[j].kind = "http_error"
    /\ Len(run.emitted) = 1
    /\ run.emitted[1].op = "checkpoint"

Key(e) == <<e.data.year, e.data.race, e.data.sex, e.data.age>>

\* C3: no two upserts of one run carry the same (year, race, sex, age).
C3_UniqueKeys ==
    \A a, b \in UpsertIdx(run) :
        a # b => Key(run.emitted[a]) # Key(run.emitted[b])

IsIntegerString(s) ==
    /\ Len(s) > 0
    /\ \A i \in 1..Len(s) : s[i] \in 48..57

\* A header row followed by data rows whose POP, YEAR and AGE columns are
\* integer strings.
WellFormed(body) ==
    /\ Len(body) >= 1
    /\ body[1] = ApiHeader
    /\ \A k \in 2..Len(body) :
          /\ Len(body[k]) = Len(ApiHeader)
          /\ IsIntegerString(body[k][1])
          /\ IsIntegerString(body[k][2])
          /\ IsIntegerString(body[k][5])

\* C4: a completed parameter set whose response was well formed yielded one
\* upsert per data row, in row order: its upserts are contiguous in the
\* output, the n-th of them comes from data row n and carries that row's
\* year, age and population.
C4_OneRecordPerRow ==
    \A j \in Completed(run) :
        (served[j].kind = "ok" /\ WellFormed(served[j].body)) =>
            LET body == served[j].body
                idx == FromSet(run, j)
            IN  /\ Cardinality(idx) = Len(body) - 1
                /\ \A i \in idx :
                      LET n == Cardinality({m \in idx : m <= i})
                          row == body[n + 1]
                      IN  /\ run.src[i].k = n
                          /\ \A m \in idx : m < i => m >= i - n + 1
                          /\ run.emitted[i].data.year = int(row[2]).val
                          /\ run.emitted[i].data.age = int(row[5]).val
                          /\ run.emitted[i].data.total_pop = int(row[1]).val

\* A completed parameter set with a well-formed response of two data rows and
\* two upserts.
C4_Witness ==
    \E j \in Completed(run) :
        /\ served[j].kind = "ok"
        /\ WellFormed(served[j].body)
        /\ Len(served[j].body) = 3
        /\ Cardinality(FromSet(run, j)) = 2

RaceLabels ==
    (<<49>> :> Str("White")) @@ (<<50>> :> Str("Black")) @@ (<<51>> :> Str("AIAN"))
        @@ (<<52>> :> Str("Asian")) @@ (<<53>> :> Str("NHPI"))
        @@ (<<54>> :> Str("Two or More Races"))

SexLabels == (<<49>> :> Str("Male")) @@ (<<50>> :> Str("Female"))

\* The label the claim gives a code: that of the table, else the code itself.
RaceLabel(code) == IF code \in DOMAIN RaceLabels THEN RaceLabels[code] ELSE code

SexLabel(code) == IF code \in DOMAIN SexLabels THEN SexLabels[code] ELSE code

\* The data row an upsert was made from.
SourceRow(i) == served[run.src[i].p].body[run.src[i].k + 1]

\* C5: every upsert carries the label of its row's RACE code and of its
\* row's SEX code, and the code itself when the table has no label for it.
C5_Labels ==
    \A i \in UpsertIdx(run) :
        /\ run.emitted[i].data.race = RaceLabel(SourceRow(i)[3])
        /\ run.emitted[i].data.sex = SexLabel(SourceRow(i)[4])

\* Upserts of a row with race code "2" (50) and sex code "1" (49), and of a
\* row with race code "9" (57) and sex code "2".
C5_Witness ==
    /\ \E i \in UpsertIdx(run) :
          /\ SourceRow(i)[3] = <<50>> /\ SourceRow(i)[4] = <<49>>
          /\ run.emitted[i].data.race = RaceLabels[<<50>>]
          /\ run.emitted[i].data.sex = SexLabels[<<49>>]
    /\ \E i \in UpsertIdx(run) :
          /\ SourceRow(i)[3] = <<57>> /\ SourceRow(i)[4] = <<50>>
          /\ run.emitted[i].data.race = <<57>>
          /\ run.emitted[i].data.sex = SexLabels[<<50>>]
          /\ run.emitted[i].data.age = 7
          /\ run.emitted[i].data.total_pop = 1204

\* C6: all upserts of a run carry one last_updated value, and the checkpoint
\* carries the same value.
C6_OneTimestamp ==
    /\ \A a, b \in UpsertIdx(run) :
          run.emitted[a].data.last_updated = run.emitted[b].data.last_updated
    /\ \A a \in UpsertIdx(run), c \in CheckpointIdx(run) :
          run.emitted[a].data.last_updated = run.emitted[c].state.last_updated

\* A finished run with upserts from two parameter sets, the clock having
\* moved between them.
C6_Witness ==
    /\ run.pc = "done"
    /\ \E i, j \in 1..Len(demo_params) :
          i # j /\ FromSet(run, i) # {} /\ FromSet(run, j) # {}
    /\ Strftime(now) # run.current_time

\* C7: the state argument has no influence: a call with a cursor and a call
\* without one, on the same responses and clock, are at the same position
\* and have issued the same requests and emitted the same operations.
C7_StateIgnored ==
    /\ twin.pc = run.pc
    /\ twin.requests = run.requests
    /\ twin.emitted = run.emitted

\* Two finished calls, one begun with a cursor and one without, that read
\* different cursors and emitted upserts.
C7_Witness ==
    /\ run.pc = "done"
    /\ twin.pc = "done"
    /\ DOMAIN run.state # {}
    /\ DOMAIN twin.state = {}
    /\ run.last_updated_cursor # twin.last_updated_cursor
    /\ UpsertIdx(run) # {}

TheUrl ==
    "https://api.census.gov/data/2017/popproj/pop?get=POP,YEAR,RACE,SEX,AGE&for=us:*&key=ac259f7342449a3fcc5b1cfbed52e87e6adfde60"

\* C8: one GET per parameter set, in list order, never repeated: the j-th
\* request is the one of parameter set j; a request is issued only between
\* the iterations, so the upserts of a set follow its request and precede
\* the next; after the loop there are exactly 8; every request carries the
\* same URL.
C8_OneRequestPerSet ==
    /\ Len(run.requests) = Len(served)
    /\ \A j \in 1..Len(run.requests) :
          /\ run.requests[j].p = j
          /\ run.requests[j].url = TheUrl
    /\ run.pc = "request" => Len(run.requests) = run.p - 1
    /\ run.pc \in {"row", "yielded"} => Len(run.requests) = run.p
    /\ PostLoop(run) => Len(run.requests) = Len(demo_params)
    /\ \A i \in UpsertIdx(run) : run.src[i].p <= Len(run.requests)
    /\ run.pc = "request" => \A i \in UpsertIdx(run) : run.src[i].p < run.p

\* A finished run of 8 requests, one of which failed and was followed by
\* the request of the next set.
C8_Witness ==
    /\ run.pc = "done"
    /\ Len(run.requests) = 8
    /\ \E j \in 1..7 : served[j].kind = "http_error" /\ run.requests[j + 1].p = j + 1
    /\ \E j \in 1..8 : served[j].kind = "ok"

HasWarning(f, j) ==
    \E i \in 1..Len(f.log) :
        /\ f.log[i].level = "warning"
        /\ f.log[i].params = demo_params[j]

C9_Safety ==
    \A j \in Completed(run) :
        (served[j].kind = "ok" /\ Len(served[j].body) > 0
            /\ FirstBad(served[j].body) < Len(served[j].body)) =>
            /\ {run.src[i].k : i \in FromSet(run, j)}
                   = 1..(FirstBad(served[j].body) - 1)
            /\ HasWarning(run, j)

\* The step taken at a data row that does not convert.
C9_Step ==
    (run.pc = "row" /\ ~Convert(run.headers, run.rows[run.k]).ok) =>
        /\ run'.emitted = run.emitted
        /\ Len(run'.log) = Len(run.log) + 1
        /\ run'.log[Len(run'.log)].level = "warning"
        /\ run'.log[Len(run'.log)].params = demo_params[run.p]
        /\ IF run.p < Len(demo_params)
           THEN run'.pc = "request" /\ run'.p = run.p + 1
           ELSE run'.pc = "summary"

\* C9: when data row k of a response does not convert, nothing is emitted
\* for it, a warning is logged for the parameter set, and the run goes on to
\* the next parameter set (after the last one, to the summary); the set's
\* upserts are those of rows 1..k-1, and no operation already emitted is ever
\* withdrawn.
C9_PartialSetKept ==
    /\ []C9_Safety
    /\ [][C9_Step /\ IsPrefix(run.emitted, run'.emitted)]_vars

\* A completed set whose second data row did not convert, with the upsert
\* of its first row emitted and a later set's upsert after it.
C9_Witness ==
    \E j \in Completed(run) :
        /\ served[j].kind = "ok"
        /\ Len(served[j].body) = 3
        /\ FirstBad(served[j].body) = 2
        /\ Cardinality(FromSet(run, j)) = 1
        /\ \E m \in (j + 1)..Len(demo_params) : FromSet(run, m) # {}

SummaryTotals(f) ==
    {f.log[i].total : i \in {m \in 1..Len(f.log) : f.log[m].msg = "Total records processed"}}

C10_Safety ==
    /\ run.total_records =
          Cardinality(UpsertIdx(run)) - (IF run.pc = "yielded" THEN 1 ELSE 0)
    /\ run.pc \in {"checkpointed", "done"} =>
          SummaryTotals(run) = {Cardinality(UpsertIdx(run))}

\* C10: total_records is the number of upserts emitted, less the one being
\* yielded while the generator is suspended at its yield; it never
\* decreases; the summary line reports the number of upserts of the run.
C10_Counter ==
    /\ []C10_Safety
    /\ [][run'.total_records >= run.total_records]_vars

\* A finished run that counted upserts, had a failing set after them, and
\* reported the count.
C10_Witness ==
    /\ run.pc = "done"
    /\ run.total_records >= 2
    /\ \E j \in 2..Len(served) :
          served[j].kind = "http_error" /\ FromSet(run, j - 1) # {}
    /\ SummaryTotals(run) = {run.total_records}

====
